---- MODULE Spec2Model ----
(***************************************************************************)
(* rust-maven-proxy: the request validator, the URI rewriter, the response *)
(* classifier and the fan-out race of Application::contact_proxies         *)
(* (src/src/app.rs, src/src/request.rs).                                   *)
(*                                                                         *)
(* Strings that the code inspects byte by byte (request targets, base      *)
(* paths) are sequences of byte values: 47 is '/', 63 is '?', 35 is '#',   *)
(* 34 is '"', 97.. are lower-case letters, 46 is '.'.                      *)
(***************************************************************************)
EXTENDS Integers, Sequences, FiniteSets, TLC

\* Largest number of entries of the configured backend list.
MaxRepos == 2

\* Identifiers of the inbound requests the server handles.
Requests == {1, 2}

\* The request followed when one inbound request is looked at on its own.
SingleRequest == {1}

VARIABLES
    repositories,   \* Application.repositories: the configured backend list
    proxy_timeout,  \* Application.proxy_timeout: the timeout of each backend call, in seconds
    request,        \* per inbound request: the request as received
    behaviour,      \* per inbound request: what each backend answers if contacted
    pc,             \* per inbound request: position of its handler task
    built,          \* per inbound request: backend requests built by the dispatch loop
    inflight,       \* per inbound request: backend calls sent and not yet completed
    completed,      \* per inbound request: every completed call, in completion order
    ready,          \* per inbound request: completed calls, in completion order, not yet yielded
    observed,       \* per inbound request: calls yielded to the race loop
    drain,          \* per inbound request: state of the detached drain task
    drained,        \* per inbound request: calls yielded to the drain task
    response,       \* per inbound request: the Client Response
    server,         \* the server of start_on: accepting, shutting_down or exited
    shutdown_inflight \* the requests in flight when the shutdown signal fired

vars == <<repositories, proxy_timeout, request, behaviour, pc, built, inflight, completed,
          ready, observed, drain, drained, response, server, shutdown_inflight>>

----------------------------------------------------------------------------
(* Values *)

NoResponse == [kind |-> "none", version |-> "", status |-> 0, headers |-> <<>>, body |-> ""]

\* handle_request returned Err: hyper closes the connection without a response.
ErrResponse == [kind |-> "err", version |-> "", status |-> 0, headers |-> <<>>, body |-> ""]

MkResponse(version, status, headers, body) ==
    [kind |-> "response", version |-> version, status |-> status,
     headers |-> headers, body |-> body]

None == [some |-> FALSE, value |-> NoResponse]

Some(v) == [some |-> TRUE, value |-> v]

----------------------------------------------------------------------------
(* http::uri::PathAndQuery as used by rewrite_uri and handle_request *)

\* Bytes that need no percent-encoding in a path, plus '"', '{', '}'.
PathByte(b) ==
    \/ b = 33
    \/ b \in 36..59
    \/ b = 61
    \/ b \in 64..95
    \/ b \in 97..122
    \/ b = 124
    \/ b = 126
    \/ b \in {34, 123, 125}

\* Bytes allowed in a query.
QueryByte(b) ==
    \/ b = 33
    \/ b \in 36..59
    \/ b = 61
    \/ b \in 63..126

\* Scan of the query part: 0 = no fragment, -1 = invalid byte, else index of '#'.
RECURSIVE ScanQuery(_, _)
ScanQuery(s, i) ==
    IF i > Len(s) THEN 0
    ELSE IF s[i] = 35 THEN i
    ELSE IF QueryByte(s[i]) THEN ScanQuery(s, i + 1)
    ELSE -1

\* Scan of the path part up to '?' or '#'.
RECURSIVE ScanPath(_, _)
ScanPath(s, i) ==
    IF i > Len(s) THEN [err |-> FALSE, query |-> 0, fragment |-> 0]
    ELSE IF s[i] = 63 THEN
        LET f == ScanQuery(s, i + 1)
        IN  [err |-> f = -1, query |-> i, fragment |-> IF f = -1 THEN 0 ELSE f]
    ELSE IF s[i] = 35 THEN [err |-> FALSE, query |-> 0, fragment |-> i]
    ELSE IF PathByte(s[i]) THEN ScanPath(s, i + 1)
    ELSE [err |-> TRUE, query |-> 0, fragment |-> 0]

\* PathAndQuery::from_str: validates the bytes, records where the query
\* starts (0: no query) and cuts a fragment off.
from_str(s) ==
    LET r == ScanPath(s, 1)
    IN  IF r.err
        THEN [ok |-> FALSE, value |-> [data |-> <<>>, query |-> 0]]
        ELSE [ok |-> TRUE,
              value |-> [data |-> IF r.fragment # 0
                                  THEN SubSeq(s, 1, r.fragment - 1)
                                  ELSE s,
                         query |-> r.query]]

\* PathAndQuery::as_str: an empty path-and-query reads as "/".
as_str(pq) == IF pq.data = <<>> THEN <<47>> ELSE pq.data

\* Uri::path_and_query: absent for an authority-form URI.
path_and_query(uri) ==
    IF uri.scheme # "" \/ uri.authority = ""
    THEN Some(uri.pq)
    ELSE [some |-> FALSE, value |-> uri.pq]

\* uri::Builder::build: a scheme needs an authority, and an authority with a
\* path needs a scheme.
build_uri(scheme, authority, pq) ==
    IF scheme # "" /\ authority = "" THEN [ok |-> FALSE, value |-> [scheme |-> "", authority |-> "", pq |-> pq]]
    ELSE IF scheme = "" /\ authority # "" THEN [ok |-> FALSE, value |-> [scheme |-> "", authority |-> "", pq |-> pq]]
    ELSE [ok |-> TRUE, value |-> [scheme |-> scheme, authority |-> authority, pq |-> pq]]

----------------------------------------------------------------------------
(* src/src/request.rs *)

ALL_ALLOWED == <<"GET", "HEAD">>

\* AllowedMethod::find_from
find_from(method) ==
    IF method = "GET" THEN [some |-> TRUE, value |-> "GET"]
    ELSE IF method = "HEAD" THEN [some |-> TRUE, value |-> "HEAD"]
    ELSE [some |-> FALSE, value |-> ""]

\* AllowedMethod::respond_with_405: one Allow header value per allowed method.
respond_with_405(version) ==
    MkResponse(version, 405,
               [i \in 1..Len(ALL_ALLOWED) |-> <<"allow", ALL_ALLOWED[i]>>],
               "Only GET, HEAD requests are allowed to rust-maven-proxy.")

----------------------------------------------------------------------------
(* src/src/app.rs: pure parts *)

\* Application::homepage_response
homepage_response(version) ==
    MkResponse(version, 200, <<>>,
               "A maven repository proxy backed by rust-maven-proxy version")

\* copy_attributes that leaves the builder's default method in place.
copy_attributes_no_method(parts, request_builder) ==
    [request_builder EXCEPT !.version = parts.version,
                            !.headers = request_builder.headers \o parts.headers]

\* copy_attributes: version, method and headers of the inbound request.
copy_attributes(parts, request_builder) ==
    [request_builder EXCEPT !.version = parts.version,
                            !.method = parts.method,
                            !.headers = request_builder.headers \o parts.headers]

\* Request::builder(): GET, HTTP/1.1, no headers, URI "/".
RequestBuilder ==
    [method |-> "GET", version |-> "HTTP/1.1", headers |-> <<>>,
     uri |-> [scheme |-> "", authority |-> "", pq |-> [data |-> <<47>>, query |-> 0]],
     body_empty |-> TRUE]

\* rewrite_uri that joins base and artifact path with a single '/'.
rewrite_uri_single_slash(existing_uri, gav) ==
    LET base == path_and_query(existing_uri)
        base_str == as_str(base.value)
        trimmed == IF base_str[Len(base_str)] = 47
                   THEN SubSeq(base_str, 1, Len(base_str) - 1)
                   ELSE base_str
        proxy_path ==
            IF base.some
            THEN from_str(trimmed \o as_str(gav))
            ELSE [ok |-> TRUE, value |-> gav]
    IN  IF ~proxy_path.ok
        THEN [ok |-> FALSE, value |-> existing_uri]
        ELSE build_uri(existing_uri.scheme, existing_uri.authority, proxy_path.value)

\* rewrite_uri
rewrite_uri(existing_uri, gav) ==
    LET base == path_and_query(existing_uri)
        proxy_path ==
            IF base.some
            THEN from_str(as_str(base.value) \o as_str(gav))
            ELSE [ok |-> TRUE, value |-> gav]
    IN  IF ~proxy_path.ok
        THEN [ok |-> FALSE, value |-> existing_uri]
        ELSE build_uri(existing_uri.scheme, existing_uri.authority, proxy_path.value)

\* handle_errors
handle_errors(result) ==
    IF result.ok THEN Some(result.value) ELSE None

\* A status filter that also lets 404 through.
classify_accept_404(result) ==
    LET outer == handle_errors(result)
        opt_response == IF outer.some THEN handle_errors(outer.value) ELSE None
    IN  IF opt_response.some /\ opt_response.value.status \in {200, 304, 404}
        THEN opt_response
        ELSE None

\* A status filter that lets every backend response through.
classify_any_response(result) ==
    LET outer == handle_errors(result)
    IN  IF outer.some THEN handle_errors(outer.value) ELSE None

\* The closure mapped over each backend future: errors and timeouts become
\* None, then only 200 and 304 pass the status filter.
classify(result) ==
    LET outer == handle_errors(result)
        opt_response == IF outer.some THEN handle_errors(outer.value) ELSE None
    IN  IF opt_response.some /\ opt_response.value.status \in {200, 304}
        THEN opt_response
        ELSE None

\* The synthesized 404 at the end of contact_proxies.
not_found_response(version) ==
    MkResponse(version, 404, <<>>,
               "No such artifact found in any of the proxy locations")

\* The dispatch loop of contact_proxies: one request per repository, in
\* order; the first build error leaves the function through `?`.
RECURSIVE dispatch_loop(_, _, _, _, _)
dispatch_loop(repos, parts, gav, i, acc) ==
    IF i > Len(repos) THEN [ok |-> TRUE, requests |-> acc]
    ELSE LET backend_uri == rewrite_uri(repos[i], gav)
         IN  IF ~backend_uri.ok
             THEN [ok |-> FALSE, requests |-> acc]
             ELSE dispatch_loop(repos, parts, gav, i + 1,
                      Append(acc, [copy_attributes(parts, RequestBuilder)
                                      EXCEPT !.uri = backend_uri.value,
                                             !.body_empty = TRUE]))

\* contact_proxies that awaits the stream before looking whether it is empty.
contact_proxies_wait_on_empty(repos, parts, gav) ==
    LET d == dispatch_loop(repos, parts, gav, 1, <<>>)
    IN  IF ~d.ok
        THEN [response |-> ErrResponse, requests |-> d.requests, racing |-> FALSE]
        ELSE [response |-> NoResponse, requests |-> d.requests, racing |-> TRUE]

\* contact_proxies up to its first suspension: the requests built, whether
\* the race starts, and the response when it is already decided.
contact_proxies(repos, parts, gav) ==
    LET d == dispatch_loop(repos, parts, gav, 1, <<>>)
    IN  IF ~d.ok
        THEN [response |-> ErrResponse, requests |-> d.requests, racing |-> FALSE]
        ELSE IF d.requests = <<>>
        THEN [response |-> not_found_response(parts.version),
              requests |-> <<>>, racing |-> FALSE]
        ELSE [response |-> NoResponse, requests |-> d.requests, racing |-> TRUE]

Answered(resp) == [response |-> resp, requests |-> <<>>, racing |-> FALSE]

\* handle_request with the special paths answered before the method check.
handle_request_paths_first(repos, original_request) ==
    LET allowed_method == find_from(original_request.method)
        parts == original_request
        gav == path_and_query(parts.uri)
    IN  IF ~gav.some
        THEN Answered(homepage_response(parts.version))
        ELSE IF as_str(gav.value) = <<47>>
        THEN Answered(homepage_response(parts.version))
        ELSE IF as_str(gav.value) = <<47, 102, 97, 118, 105, 99, 111, 110, 46, 105, 99, 111>>
        THEN Answered(MkResponse(parts.version, 404, <<>>, ""))
        ELSE IF ~allowed_method.some
        THEN Answered(respond_with_405(original_request.version))
        ELSE IF ~original_request.body_end
        THEN Answered(MkResponse(parts.version, 400, <<>>,
                                 "A request must have an empty body"))
        ELSE contact_proxies(repos, parts, gav.value)

\* handle_request with the body check before the special paths.
handle_request_body_first(repos, original_request) ==
    LET allowed_method == find_from(original_request.method)
        parts == original_request
        gav == path_and_query(parts.uri)
    IN  IF ~allowed_method.some
        THEN Answered(respond_with_405(original_request.version))
        ELSE IF ~original_request.body_end
        THEN Answered(MkResponse(parts.version, 400, <<>>,
                                 "A request must have an empty body"))
        ELSE IF ~gav.some
        THEN Answered(homepage_response(parts.version))
        ELSE IF as_str(gav.value) = <<47>>
        THEN Answered(homepage_response(parts.version))
        ELSE IF as_str(gav.value) = <<47, 102, 97, 118, 105, 99, 111, 110, 46, 105, 99, 111>>
        THEN Answered(MkResponse(parts.version, 404, <<>>, ""))
        ELSE contact_proxies(repos, parts, gav.value)

\* handle_request without the body check.
handle_request_no_body_check(repos, original_request) ==
    LET allowed_method == find_from(original_request.method)
        parts == original_request
        gav == path_and_query(parts.uri)
    IN  IF ~allowed_method.some
        THEN Answered(respond_with_405(original_request.version))
        ELSE IF ~gav.some
        THEN Answered(homepage_response(parts.version))
        ELSE IF as_str(gav.value) = <<47>>
        THEN Answered(homepage_response(parts.version))
        ELSE IF as_str(gav.value) = <<47, 102, 97, 118, 105, 99, 111, 110, 46, 105, 99, 111>>
        THEN Answered(MkResponse(parts.version, 404, <<>>, ""))
        ELSE contact_proxies(repos, parts, gav.value)

\* handle_request that forwards "/favicon.ico" to the backends.
handle_request_favicon_proxied(repos, original_request) ==
    LET allowed_method == find_from(original_request.method)
        parts == original_request
        gav == path_and_query(parts.uri)
    IN  IF ~allowed_method.some
        THEN Answered(respond_with_405(original_request.version))
        ELSE IF ~gav.some
        THEN Answered(homepage_response(parts.version))
        ELSE IF as_str(gav.value) = <<47>>
        THEN Answered(homepage_response(parts.version))
        ELSE IF ~original_request.body_end
        THEN Answered(MkResponse(parts.version, 400, <<>>,
                                 "A request must have an empty body"))
        ELSE contact_proxies(repos, parts, gav.value)

\* handle_request up to its first suspension.
handle_request(repos, original_request) ==
    LET allowed_method == find_from(original_request.method)
        parts == original_request
        gav == path_and_query(parts.uri)
    IN  IF ~allowed_method.some
        THEN Answered(respond_with_405(original_request.version))
        ELSE IF ~gav.some
        THEN Answered(homepage_response(parts.version))
        ELSE IF as_str(gav.value) = <<47>>
        THEN Answered(homepage_response(parts.version))
        ELSE IF as_str(gav.value) = <<47, 102, 97, 118, 105, 99, 111, 110, 46, 105, 99, 111>>
        THEN Answered(MkResponse(parts.version, 404, <<>>, ""))
        ELSE IF ~original_request.body_end
        THEN Answered(MkResponse(parts.version, 400, <<>>,
                                 "A request must have an empty body"))
        ELSE contact_proxies(repos, parts, gav.value)

----------------------------------------------------------------------------
(* Inputs *)

\* Backend base addresses as Config::repositories yields them: absolute,
\* with a path of at least "/".  "https://h1/m?x" and "http://h2/".
BaseUris ==
    { [scheme |-> "https", authority |-> "h1", pq |-> from_str(<<47, 109, 63, 120>>).value],
      [scheme |-> "http", authority |-> "h2", pq |-> from_str(<<47>>).value] }

RECURSIVE SeqsUpTo(_, _)
SeqsUpTo(S, n) ==
    IF n = 0 THEN { <<>> }
    ELSE LET shorter == SeqsUpTo(S, n - 1)
         IN  shorter \cup { Append(s, x) : s \in { t \in shorter : Len(t) = n - 1 }, x \in S }

Configurations == SeqsUpTo(BaseUris, MaxRepos)

\* The timeout of the default configuration, in seconds.
DefaultProxyTimeout == 15

Methods == {"GET", "HEAD", "POST"}

Versions == {"HTTP/1.0", "HTTP/1.1"}

\* Request targets in origin form: "/", "/favicon.ico", "/a", "/?a", "/\"".
OriginTargets ==
    { <<47>>,
      <<47, 102, 97, 118, 105, 99, 111, 110, 46, 105, 99, 111>>,
      <<47, 97>>,
      <<47, 63, 97>>,
      <<47, 34>> }

\* The origin-form targets and one authority-form target ("h3").
InboundUris ==
    { [scheme |-> "", authority |-> "", pq |-> from_str(t).value] : t \in OriginTargets }
    \cup { [scheme |-> "", authority |-> "h3", pq |-> [data |-> <<>>, query |-> 0]] }

HeaderMaps == { <<>>, << <<"accept", "text/html">>, <<"x-custom-foo", "foo">> >> }

InboundRequests ==
    [method : Methods, version : Versions, uri : InboundUris,
     headers : HeaderMaps, body_end : BOOLEAN]

\* What a backend call resolves to: Ok(Ok(response)), Ok(Err(hyper error))
\* or Err(Elapsed).  Backends answer in HTTP/1.1.
BackendResponse(status, i) ==
    [ok |-> TRUE,
     value |-> [ok |-> TRUE,
                value |-> MkResponse("HTTP/1.1", status, <<>>, "body" \o ToString(i))]]

TransportError == [ok |-> TRUE, value |-> [ok |-> FALSE, value |-> NoResponse]]

Elapsed == [ok |-> FALSE, value |-> [ok |-> FALSE, value |-> NoResponse]]

OutcomeKinds == {"200", "304", "404", "500", "error", "elapsed"}

Outcome(kind, i) ==
    CASE kind = "200" -> BackendResponse(200, i)
      [] kind = "304" -> BackendResponse(304, i)
      [] kind = "404" -> BackendResponse(404, i)
      [] kind = "500" -> BackendResponse(500, i)
      [] kind = "error" -> TransportError
      [] OTHER -> Elapsed

Behaviours(n) ==
    { [i \in 1..n |-> Outcome(k[i], i)] : k \in [1..n -> OutcomeKinds] }

\* The inputs of the specification with the shutdown signal: GET "/a", and
\* backends that answer 200 or 404 or time out.
ArtifactRequests ==
    { q \in InboundRequests :
        /\ q.method = "GET"
        /\ q.version = "HTTP/1.1"
        /\ q.headers = <<>>
        /\ q.body_end
        /\ q.uri.authority = ""
        /\ as_str(q.uri.pq) = <<47, 97>> }

ArtifactOutcomeKinds == {"200", "404", "elapsed"}

ArtifactBehaviours(n) ==
    { [i \in 1..n |-> Outcome(k[i], i)] : k \in [1..n -> ArtifactOutcomeKinds] }

\* Two backends without a query in their base: "http://h2/" twice.
ShutdownConfiguration ==
    LET u == [scheme |-> "http", authority |-> "h2", pq |-> from_str(<<47>>).value]
    IN  <<u, u>>

\* The inputs of the specification with two concurrent requests: the two
\* base addresses in either order, and GET "/a", GET "/\"" and POST "/a".
ConcurrentConfigurations ==
    { c \in Configurations : Len(c) = 2 /\ c[1] # c[2] }

ConcurrentRequests ==
    { q \in InboundRequests :
        /\ q.version = "HTTP/1.1"
        /\ q.headers = <<>>
        /\ q.body_end
        /\ q.uri.authority = ""
        /\ \/ q.method = "GET" /\ as_str(q.uri.pq) \in { <<47, 97>>, <<47, 34>> }
           \/ q.method = "POST" /\ as_str(q.uri.pq) = <<47, 97>> }

----------------------------------------------------------------------------
(* The state machine *)

Init ==
    /\ repositories \in Configurations
    /\ proxy_timeout = DefaultProxyTimeout
    /\ request = [r \in Requests |-> <<>>]
    /\ behaviour = [r \in Requests |-> <<>>]
    /\ pc = [r \in Requests |-> "idle"]
    /\ built = [r \in Requests |-> <<>>]
    /\ inflight = [r \in Requests |-> {}]
    /\ completed = [r \in Requests |-> <<>>]
    /\ ready = [r \in Requests |-> <<>>]
    /\ observed = [r \in Requests |-> {}]
    /\ drain = [r \in Requests |-> "none"]
    /\ drained = [r \in Requests |-> {}]
    /\ response = [r \in Requests |-> NoResponse]
    /\ server = "accepting"
    /\ shutdown_inflight = {}

\* The server still accepts, and inbound request r has not arrived yet.
Accepts(r) ==
    /\ server = "accepting"
    /\ pc[r] = "idle"

\* handle_request runs on inbound request r to its first suspension: either
\* it returns, or every backend call is in flight.  beh is what the backends
\* will answer.
Receive(r, original_request, beh) ==
    /\ LET h == handle_request(repositories, original_request)
       IN  /\ request' = [request EXCEPT ![r] = <<original_request>>]
           /\ behaviour' = [behaviour EXCEPT ![r] = beh]
           /\ built' = [built EXCEPT ![r] = h.requests]
           /\ inflight' = [inflight EXCEPT ![r] = IF h.racing THEN DOMAIN h.requests ELSE {}]
           /\ response' = [response EXCEPT ![r] = h.response]
           /\ pc' = [pc EXCEPT ![r] = IF h.racing THEN "race" ELSE "done"]
    /\ UNCHANGED <<repositories, proxy_timeout, completed, ready, observed, drain, drained,
                   server, shutdown_inflight>>

\* An inbound request arrives: any request, any backend behaviour.
HandleRequest(r) ==
    /\ Accepts(r)
    /\ \E original_request \in InboundRequests, beh \in Behaviours(Len(repositories)) :
           Receive(r, original_request, beh)

\* An inbound artifact request arrives.
HandleArtifactRequest(r) ==
    /\ Accepts(r)
    /\ \E original_request \in ArtifactRequests, beh \in ArtifactBehaviours(Len(repositories)) :
           Receive(r, original_request, beh)

\* An inbound request arrives while another may be in progress.
HandleConcurrentRequest(r) ==
    /\ Accepts(r)
    /\ \E original_request \in ConcurrentRequests, beh \in ArtifactBehaviours(Len(repositories)) :
           Receive(r, original_request, beh)

\* A completion that goes to the stream of every request in its race.
BackendCompleteShared(r, i) ==
    /\ server # "exited"
    /\ i \in inflight[r]
    /\ inflight' = [inflight EXCEPT ![r] = @ \ {i}]
    /\ completed' = [completed EXCEPT ![r] = Append(@, i)]
    /\ ready' = [q \in Requests |->
                    IF q = r \/ pc[q] = "race" THEN Append(ready[q], i) ELSE ready[q]]
    /\ UNCHANGED <<repositories, proxy_timeout, request, behaviour, pc, built, observed,
                   drain, drained, response, server, shutdown_inflight>>

\* A backend call completes (response, transport error or timeout) and its
\* future becomes ready to be yielded by the FuturesUnordered stream.
BackendComplete(r, i) ==
    /\ server # "exited"
    /\ i \in inflight[r]
    /\ inflight' = [inflight EXCEPT ![r] = @ \ {i}]
    /\ completed' = [completed EXCEPT ![r] = Append(@, i)]
    /\ ready' = [ready EXCEPT ![r] = Append(@, i)]
    /\ UNCHANGED <<repositories, proxy_timeout, request, behaviour, pc, built, observed,
                   drain, drained, response, server, shutdown_inflight>>

\* A race loop that joins every call before it picks the winner.
RaceNextJoinAll(r) ==
    /\ server # "exited"
    /\ pc[r] = "race"
    /\ ready[r] # <<>>
    /\ LET i == Head(ready[r])
           seen == observed[r] \cup {i}
           accepted == { j \in seen : classify(behaviour[r][j]).some }
       IN  /\ ready' = [ready EXCEPT ![r] = Tail(@)]
           /\ observed' = [observed EXCEPT ![r] = seen]
           /\ IF inflight[r] = {} /\ Tail(ready[r]) = <<>>
              THEN /\ response' = [response EXCEPT ![r] =
                        IF accepted # {}
                        THEN classify(behaviour[r][CHOOSE j \in accepted :
                                 \A k \in accepted : j <= k]).value
                        ELSE not_found_response(request[r][1].version)]
                   /\ pc' = [pc EXCEPT ![r] = "done"]
              ELSE UNCHANGED <<response, pc>>
           /\ UNCHANGED drain
    /\ UNCHANGED <<repositories, proxy_timeout, request, behaviour, built, inflight, completed,
                   drained, server, shutdown_inflight>>

\* A race loop that gives the request up when a call timed out.
RaceNextTimeoutAborts(r) ==
    /\ server # "exited"
    /\ pc[r] = "race"
    /\ ready[r] # <<>>
    /\ LET i == Head(ready[r])
           opt == classify(behaviour[r][i])
       IN  /\ ready' = [ready EXCEPT ![r] = Tail(@)]
           /\ observed' = [observed EXCEPT ![r] = @ \cup {i}]
           /\ IF opt.some
              THEN /\ response' = [response EXCEPT ![r] = opt.value]
                   /\ drain' = [drain EXCEPT ![r] = "running"]
                   /\ pc' = [pc EXCEPT ![r] = "done"]
              ELSE IF ~behaviour[r][i].ok \/ (inflight[r] = {} /\ Tail(ready[r]) = <<>>)
              THEN /\ response' = [response EXCEPT ![r] =
                                      not_found_response(request[r][1].version)]
                   /\ pc' = [pc EXCEPT ![r] = "done"]
                   /\ UNCHANGED drain
              ELSE UNCHANGED <<response, drain, pc>>
    /\ UNCHANGED <<repositories, proxy_timeout, request, behaviour, built, inflight, completed,
                   drained, server, shutdown_inflight>>

\* A race loop that takes the call that completed last.
RaceNextLifo(r) ==
    /\ server # "exited"
    /\ pc[r] = "race"
    /\ ready[r] # <<>>
    /\ LET i == ready[r][Len(ready[r])]
           rest == SubSeq(ready[r], 1, Len(ready[r]) - 1)
           opt == classify(behaviour[r][i])
       IN  /\ ready' = [ready EXCEPT ![r] = rest]
           /\ observed' = [observed EXCEPT ![r] = @ \cup {i}]
           /\ IF opt.some
              THEN /\ response' = [response EXCEPT ![r] = opt.value]
                   /\ drain' = [drain EXCEPT ![r] = "running"]
                   /\ pc' = [pc EXCEPT ![r] = "done"]
              ELSE IF inflight[r] = {} /\ rest = <<>>
              THEN /\ response' = [response EXCEPT ![r] =
                                      not_found_response(request[r][1].version)]
                   /\ pc' = [pc EXCEPT ![r] = "done"]
                   /\ UNCHANGED drain
              ELSE UNCHANGED <<response, drain, pc>>
    /\ UNCHANGED <<repositories, proxy_timeout, request, behaviour, built, inflight, completed,
                   drained, server, shutdown_inflight>>

\* A race loop that sends the request again to a backend that did not accept.
RaceNextRetry(r) ==
    /\ server # "exited"
    /\ pc[r] = "race"
    /\ ready[r] # <<>>
    /\ LET i == Head(ready[r])
           opt == classify(behaviour[r][i])
       IN  /\ ready' = [ready EXCEPT ![r] = Tail(@)]
           /\ observed' = [observed EXCEPT ![r] = @ \cup {i}]
           /\ IF opt.some
              THEN /\ response' = [response EXCEPT ![r] = opt.value]
                   /\ drain' = [drain EXCEPT ![r] = "running"]
                   /\ pc' = [pc EXCEPT ![r] = "done"]
                   /\ UNCHANGED inflight
              ELSE IF i \in observed[r]
              THEN /\ response' = [response EXCEPT ![r] =
                                      not_found_response(request[r][1].version)]
                   /\ pc' = [pc EXCEPT ![r] = "done"]
                   /\ UNCHANGED <<drain, inflight>>
              ELSE /\ inflight' = [inflight EXCEPT ![r] = @ \cup {i}]
                   /\ UNCHANGED <<response, drain, pc>>
    /\ UNCHANGED <<repositories, proxy_timeout, request, behaviour, built, completed,
                   drained, server, shutdown_inflight>>

\* One iteration of the race loop: futures.next() yields the next completed
\* call.
RaceNext(r) ==
    /\ server # "exited"
    /\ pc[r] = "race"
    /\ ready[r] # <<>>
    /\ LET i == Head(ready[r])
           opt == classify(behaviour[r][i])
       IN  /\ ready' = [ready EXCEPT ![r] = Tail(@)]
           /\ observed' = [observed EXCEPT ![r] = @ \cup {i}]
           /\ IF opt.some
              THEN /\ response' = [response EXCEPT ![r] = opt.value]
                   /\ drain' = [drain EXCEPT ![r] = "running"]
                   /\ pc' = [pc EXCEPT ![r] = "done"]
              ELSE IF inflight[r] = {} /\ Tail(ready[r]) = <<>>
              THEN /\ response' = [response EXCEPT ![r] =
                                      not_found_response(request[r][1].version)]
                   /\ pc' = [pc EXCEPT ![r] = "done"]
                   /\ UNCHANGED drain
              ELSE UNCHANGED <<response, drain, pc>>
    /\ UNCHANGED <<repositories, proxy_timeout, request, behaviour, built, inflight, completed,
                   drained, server, shutdown_inflight>>

\* The detached task collecting the remaining futures: it takes the next
\* completed call, or ends when none remains.
DrainNext(r) ==
    /\ server # "exited"
    /\ drain[r] = "running"
    /\ IF ready[r] # <<>>
       THEN /\ ready' = [ready EXCEPT ![r] = Tail(@)]
            /\ drained' = [drained EXCEPT ![r] = @ \cup {Head(ready[r])}]
            /\ UNCHANGED drain
       ELSE /\ inflight[r] = {}
            /\ drain' = [drain EXCEPT ![r] = "finished"]
            /\ UNCHANGED <<ready, drained>>
    /\ UNCHANGED <<repositories, proxy_timeout, request, behaviour, pc, built, inflight,
                   completed, observed, response, server, shutdown_inflight>>

\* The shutdown future of start_on resolves (CTRL+C): the server stops
\* accepting.
Shutdown ==
    /\ server = "accepting"
    /\ server' = "shutting_down"
    /\ shutdown_inflight' = { r \in Requests : pc[r] = "race" }
    /\ UNCHANGED <<repositories, proxy_timeout, request, behaviour, pc, built, inflight,
                   completed, ready, observed, drain, drained, response>>

\* A shutdown that ends the server at once, handlers still running.
ServerExitAbrupt ==
    /\ server = "shutting_down"
    /\ server' = "exited"
    /\ drain' = [r \in Requests |->
                    IF drain[r] = "running" THEN "cancelled" ELSE drain[r]]
    /\ UNCHANGED <<repositories, proxy_timeout, request, behaviour, pc, built, inflight,
                   completed, ready, observed, drained, response,
                   shutdown_inflight>>

\* The graceful shutdown ends once no handler is running: start_on returns,
\* main returns and the runtime is dropped, with every task still spawned
\* on it.
ServerExit ==
    /\ server = "shutting_down"
    /\ \A r \in Requests : pc[r] # "race"
    /\ server' = "exited"
    /\ drain' = [r \in Requests |->
                    IF drain[r] = "running" THEN "cancelled" ELSE drain[r]]
    /\ UNCHANGED <<repositories, proxy_timeout, request, behaviour, pc, built, inflight,
                   completed, ready, observed, drained, response,
                   shutdown_inflight>>

\* One inbound request, every input, a server that keeps running.
Next ==
    \/ \E r \in SingleRequest : HandleRequest(r)
    \/ \E r \in SingleRequest : \E i \in 1..MaxRepos : BackendComplete(r, i)
    \/ \E r \in SingleRequest : RaceNext(r)
    \/ \E r \in SingleRequest : DrainNext(r)

Spec == Init /\ [][Next]_vars

\* The progress the runtime and the per-call timeouts give: a call in flight
\* completes (at the latest by its timeout), and a task that can run is run.
Progress ==
    /\ \A r \in Requests : \A i \in 1..MaxRepos : WF_vars(BackendComplete(r, i))
    /\ \A r \in Requests : WF_vars(RaceNext(r))
    /\ \A r \in Requests : WF_vars(DrainNext(r))

\* Two artifact requests and the shutdown signal, on a fixed backend list.
InitShutdown ==
    /\ Init
    /\ repositories = ShutdownConfiguration

NextShutdown ==
    \/ \E r \in Requests : HandleArtifactRequest(r)
    \/ \E r \in Requests : \E i \in 1..MaxRepos : BackendComplete(r, i)
    \/ \E r \in Requests : RaceNext(r)
    \/ \E r \in Requests : DrainNext(r)
    \/ Shutdown
    \/ ServerExit

ShutdownSpec ==
    InitShutdown /\ [][NextShutdown]_vars /\ Progress /\ WF_vars(ServerExit)

\* Two inbound requests handled concurrently by a server that keeps running.
InitConcurrent ==
    /\ Init
    /\ repositories \in ConcurrentConfigurations

NextConcurrent ==
    \/ \E r \in Requests : HandleConcurrentRequest(r)
    \/ \E r \in Requests : \E i \in 1..MaxRepos : BackendComplete(r, i)
    \/ \E r \in Requests : RaceNext(r)
    \/ \E r \in Requests : DrainNext(r)

ConcurrentSpec == InitConcurrent /\ [][NextConcurrent]_vars

----------------------------------------------------------------------------
(* Vocabulary of the properties *)

Received(r) == request[r] # <<>>

Req(r) == request[r][1]

Gav(r) == path_and_query(Req(r).uri)

RootTarget == <<47>>

FaviconTarget == <<47, 102, 97, 118, 105, 99, 111, 110, 46, 105, 99, 111>>

AllowedMethods == {"GET", "HEAD"}

\* The request has a path-and-query other than "/" and "/favicon.ico".
ArtifactPath(r) ==
    /\ Gav(r).some
    /\ as_str(Gav(r).value) \notin {RootTarget, FaviconTarget}

\* GET or HEAD, empty body, non-special path.
ReachesDispatcher(r) ==
    /\ Received(r)
    /\ Req(r).method \in AllowedMethods
    /\ Req(r).body_end
    /\ ArtifactPath(r)

Backends == 1..Len(repositories)

\* Building the request for backend i fails.
BuildFails(r, i) == ~rewrite_uri(repositories[i], Gav(r).value).ok

\* Backend i answers the request with a status in S.
RespondsWith(r, i, S) ==
    /\ ~BuildFails(r, i)
    /\ behaviour[r][i].ok
    /\ behaviour[r][i].value.ok
    /\ behaviour[r][i].value.value.status \in S

BackendResponseOf(r, i) == behaviour[r][i].value.value

IsSynthesized404(resp) ==
    /\ resp.kind = "response"
    /\ resp.status = 404
    /\ resp.body = "No such artifact found in any of the proxy locations"

IsPassThrough(r) ==
    /\ response[r].kind = "response"
    /\ \E i \in Backends : response[r] = BackendResponseOf(r, i)

----------------------------------------------------------------------------
(* Properties *)

\* C1: for a request that reaches the dispatcher, if some backend answers
\* 200 or 304 then the Client Response is the unmodified response of a
\* backend that answered 200 or 304, whatever the other backends' outcomes
\* (a request-build failure included).
C1_PassThroughIdentity ==
    \A r \in Requests :
        ( /\ ReachesDispatcher(r)
          /\ pc[r] = "done"
          /\ \E i \in Backends : RespondsWith(r, i, {200, 304}) )
        => \E i \in Backends :
               /\ RespondsWith(r, i, {200, 304})
               /\ response[r] = BackendResponseOf(r, i)

\* C2: if every configured backend answers 404, the Client Response is the
\* synthesized 404 with the fixed message, in every configuration order and
\* every completion order.
C2_AllNotFound ==
    \A r \in Requests :
        ( /\ ReachesDispatcher(r)
          /\ pc[r] = "done"
          /\ \A i \in Backends : RespondsWith(r, i, {404}) )
        => IsSynthesized404(response[r])

C2_Witness ==
    \E r \in Requests :
        /\ ReachesDispatcher(r)
        /\ pc[r] = "done"
        /\ Len(repositories) >= 2
        /\ repositories[1] # repositories[2]
        /\ \A i \in Backends : RespondsWith(r, i, {404})
        /\ completed[r][1] = 2
        /\ observed[r] = Backends
        /\ IsSynthesized404(response[r])

\* C3: with an empty backend list an artifact request resolves at once to
\* the synthesized 404, and no backend request is built or sent.
C3_EmptyBackendList ==
    \A r \in Requests :
        (repositories = <<>> /\ ReachesDispatcher(r))
        => /\ pc[r] = "done"
           /\ IsSynthesized404(response[r])
           /\ built[r] = <<>>
           /\ inflight[r] = {}
           /\ completed[r] = <<>>

C3_Witness ==
    \E r \in Requests :
        /\ repositories = <<>>
        /\ ReachesDispatcher(r)
        /\ IsSynthesized404(response[r])

\* C4: a request whose method is not GET or HEAD gets 405 with the Allow
\* values GET and HEAD, for every path and body state.
C4_MethodNotAllowed ==
    \A r \in Requests :
        (Received(r) /\ Req(r).method \notin AllowedMethods)
        => LET allow == { k \in DOMAIN response[r].headers :
                             response[r].headers[k][1] = "allow" }
           IN  /\ response[r].kind = "response"
               /\ response[r].status = 405
               /\ Cardinality(allow) = 2
               /\ { response[r].headers[k][2] : k \in allow } = {"GET", "HEAD"}

C4_Witness ==
    \E r \in Requests :
        /\ Received(r)
        /\ Req(r).method = "POST"
        /\ Gav(r).some
        /\ as_str(Gav(r).value) = RootTarget
        /\ ~Req(r).body_end
        /\ response[r].status = 405

\* C5 (as stated): a request for "/" gets 200 with the informational text
\* and a request for "/favicon.ico" gets 404 with an empty body, for any
\* method and any body state.
C5_SpecialPathsAnyMethod ==
    \A r \in Requests :
        (Received(r) /\ Gav(r).some)
        => /\ as_str(Gav(r).value) = RootTarget
                => response[r] = homepage_response(Req(r).version)
           /\ as_str(Gav(r).value) = FaviconTarget
                => /\ response[r].kind = "response"
                   /\ response[r].status = 404
                   /\ response[r].body = ""

\* C5 (amended): a GET or HEAD request whose path-and-query is exactly "/"
\* gets 200 with the informational text, and one whose path-and-query is
\* exactly "/favicon.ico" gets 404 with an empty body, with or without a body.
C5_SpecialPathsAllowedMethod ==
    \A r \in Requests :
        (Received(r) /\ Gav(r).some /\ Req(r).method \in AllowedMethods)
        => /\ as_str(Gav(r).value) = RootTarget
                => /\ response[r].kind = "response"
                   /\ response[r].status = 200
                   /\ response[r].body =
                        "A maven repository proxy backed by rust-maven-proxy version"
           /\ as_str(Gav(r).value) = FaviconTarget
                => /\ response[r].kind = "response"
                   /\ response[r].status = 404
                   /\ response[r].body = ""

C5_Witness ==
    \E r \in Requests :
        /\ Received(r)
        /\ Req(r).method = "HEAD"
        /\ ~Req(r).body_end
        /\ Gav(r).some
        /\ as_str(Gav(r).value) = FaviconTarget
        /\ response[r].status = 404
        /\ response[r].body = ""

\* C6: a GET or HEAD request with a non-empty body and a path other than
\* "/" and "/favicon.ico" gets 400, for every backend list and behaviour.
C6_NonEmptyBody ==
    \A r \in Requests :
        ( /\ Received(r)
          /\ Req(r).method \in AllowedMethods
          /\ ~Req(r).body_end
          /\ ArtifactPath(r) )
        => /\ response[r].kind = "response"
           /\ response[r].status = 400
           /\ built[r] = <<>>

C6_Witness ==
    \E r \in Requests :
        /\ Received(r)
        /\ Req(r).method = "GET"
        /\ ~Req(r).body_end
        /\ ArtifactPath(r)
        /\ \E i \in Backends : RespondsWith(r, i, {200})
        /\ response[r].status = 400

\* C7: the Client Response is produced in the very step that observes an
\* Accepted outcome, with the other calls still in flight; observing a
\* completed call never waits for another call; and a response, once
\* produced, is never changed by later outcomes.
C7_WinnerNotDelayed ==
    /\ [](\A r \in Requests :
            (pc[r] = "race" /\ ready[r] # <<>>) => ENABLED RaceNext(r))
    /\ [][\A r \in Requests :
            /\ response[r] # NoResponse => response'[r] = response[r]
            /\ ( /\ pc[r] = "race"
                 /\ observed'[r] # observed[r]
                 /\ classify(behaviour[r][Head(ready[r])]).some )
               => /\ response'[r] = BackendResponseOf(r, Head(ready[r]))
                  /\ pc'[r] = "done"
                  /\ inflight'[r] = inflight[r]]_vars

C7_Witness ==
    \E r \in Requests :
        /\ pc[r] = "done"
        /\ Cardinality({ i \in Backends : RespondsWith(r, i, {200, 304}) }) = 1
        /\ IsPassThrough(r)
        /\ inflight[r] # {}

\* C8: a rewritten URI keeps the base's scheme and authority, and its
\* path-and-query is the base's path-and-query followed by the artifact
\* path, byte for byte (a base query absorbs the artifact path).
C8_RewriteConcatenates ==
    \A r \in Requests : \A i \in DOMAIN built[r] :
        LET B == repositories[i]
            U == built[r][i].uri
        IN  /\ U.scheme = B.scheme
            /\ U.authority = B.authority
            /\ path_and_query(U).some
            /\ as_str(U.pq) = as_str(B.pq) \o as_str(Gav(r).value)
            /\ B.pq.query # 0 => U.pq.query = B.pq.query

C8_Witness ==
    \E r \in Requests : \E i, j \in DOMAIN built[r] :
        /\ repositories[i].pq.query # 0
        /\ Gav(r).value.query # 0
        /\ as_str(repositories[j].pq) = <<47>>
        /\ SubSeq(as_str(built[r][j].uri.pq), 1, 2) = <<47, 47>>

\* C9: every backend request has the inbound request's method, version and
\* headers and an empty body; the backend requests of one inbound request
\* differ in the URI only.
C9_BackendRequestAttributes ==
    \A r \in Requests : \A i \in DOMAIN built[r] :
        /\ built[r][i].method = Req(r).method
        /\ built[r][i].version = Req(r).version
        /\ built[r][i].headers = Req(r).headers
        /\ built[r][i].body_empty
        /\ \A j \in DOMAIN built[r] :
               [built[r][i] EXCEPT !.uri = built[r][j].uri] = built[r][j]

C9_Witness ==
    \E r \in Requests :
        /\ Len(built[r]) >= 2
        /\ Req(r).method = "HEAD"
        /\ Req(r).version = "HTTP/1.0"
        /\ Req(r).headers # <<>>
        /\ built[r][1].method = "HEAD"
        /\ built[r][1].uri # built[r][2].uri

\* C10: every Client Response, a passed-through one included, carries the
\* HTTP version of the inbound request.
C10_ResponseVersion ==
    \A r \in Requests :
        response[r].kind = "response" => response[r].version = Req(r).version

\* C11: after the shutdown signal no new inbound request is accepted; every
\* inbound request in flight at the signal still runs to its Client
\* Response; and the server's run ends only when no handler is running, so
\* with a response for each request that was in flight at the signal.
C11_GracefulShutdown ==
    /\ [][\A r \in Requests :
            (server # "accepting" /\ pc[r] = "idle") => pc'[r] = "idle"]_vars
    /\ [](server = "exited"
            => \A r \in Requests :
                   /\ pc[r] # "race"
                   /\ r \in shutdown_inflight => response[r].kind = "response")
    /\ \A r \in Requests :
           (server = "shutting_down" /\ pc[r] = "race")
               ~> (pc[r] = "done" /\ response[r].kind = "response")

C11_Witness ==
    /\ server = "exited"
    /\ 1 \in shutdown_inflight
    /\ pc[1] = "done"
    /\ response[1].kind = "response"
    /\ pc[2] = "idle"

\* C12: when building the request fails for one backend, the inbound
\* request is not aborted: every backend whose request can be built is still
\* contacted, and the request ends in a passed-through response or in the
\* synthesized 404.
C12_BuildFailureScoped ==
    \A r \in Requests :
        (ReachesDispatcher(r) /\ \E i \in Backends : BuildFails(r, i))
        => /\ response[r].kind # "err"
           /\ \A j \in Backends :
                  ~BuildFails(r, j)
                      => \/ j \in inflight[r]
                         \/ \E k \in DOMAIN completed[r] : completed[r][k] = j
           /\ pc[r] = "done"
                  => IsPassThrough(r) \/ IsSynthesized404(response[r])

\* C13: every inbound request that handle_request has finished with has a
\* complete Client Response; the handler never ends in an error.
C13_AlwaysResponds ==
    \A r \in Requests :
        /\ pc[r] = "done" => response[r].kind = "response"
        /\ response[r] # ErrResponse

\* Backend i answered with a status other than 200, 304 and 404, and the
\* race loop has observed it.
ObservedOtherStatus(r, i) ==
    /\ i \in observed[r]
    /\ behaviour[r][i].ok
    /\ behaviour[r][i].value.ok
    /\ BackendResponseOf(r, i).status \notin {200, 304, 404}

\* The calls the race loop has observed with an Accepted outcome.
ObservedAccepted(r) ==
    { j \in observed[r] : classify(behaviour[r][j]).some }

\* C14: an outcome is Accepted exactly when it is a response with status 200
\* or 304.  A response with a status other than 200, 304 and 404 is never
\* the Client Response, never turns into a 502, and does not end the race
\* while another call is outstanding; the request ends with the response
\* of an accepting backend, or with the synthesized 404 after every backend
\* was observed.
C14_OtherStatusNotAccepted ==
    \A r \in Requests :
        /\ \A i \in DOMAIN behaviour[r] :
               classify(behaviour[r][i]).some
                   <=> /\ behaviour[r][i].ok
                       /\ behaviour[r][i].value.ok
                       /\ BackendResponseOf(r, i).status \in {200, 304}
        /\ \A i \in DOMAIN behaviour[r] :
               ObservedOtherStatus(r, i)
                   => /\ response[r] # BackendResponseOf(r, i)
                      /\ response[r].kind # "err"
                      /\ response[r].kind = "response"
                             => response[r].status \in {200, 304, 404}
                      /\ pc[r] = "race" => (inflight[r] # {} \/ ready[r] # <<>>)
                      /\ pc[r] = "done"
                             => IF ObservedAccepted(r) # {}
                                THEN \E j \in ObservedAccepted(r) :
                                         response[r] = BackendResponseOf(r, j)
                                ELSE /\ IsSynthesized404(response[r])
                                     /\ observed[r] = Backends

C14_Witness ==
    \E r \in Requests :
        /\ pc[r] = "done"
        /\ Len(completed[r]) = 2
        /\ ObservedOtherStatus(r, completed[r][1])
        /\ BackendResponseOf(r, completed[r][1]).status = 500
        /\ RespondsWith(r, completed[r][2], {404})
        /\ observed[r] = Backends
        /\ IsSynthesized404(response[r])

\* The call to backend i ran into its timeout.
TimedOut(r, i) == ~behaviour[r][i].ok

\* C15: a call that times out fails for its backend only.  The step that
\* observes it leaves every sibling call in flight and ends the race only
\* when it was the last call outstanding; and a request with a timed-out
\* call ends with the response of a sibling that answered 200 or 304, if
\* there is one, and otherwise with the synthesized 404 after every call
\* was observed.
C15_TimeoutScoped ==
    /\ [][\A r \in Requests :
            ( /\ pc[r] = "race"
              /\ observed'[r] # observed[r]
              /\ TimedOut(r, Head(ready[r])) )
            => /\ inflight'[r] = inflight[r]
               /\ ready'[r] = Tail(ready[r])
               /\ IF inflight[r] = {} /\ Tail(ready[r]) = <<>>
                  THEN pc'[r] = "done" /\ IsSynthesized404(response'[r])
                  ELSE pc'[r] = "race" /\ response'[r] = NoResponse]_vars
    /\ [](\A r \in Requests :
            ( /\ pc[r] = "done"
              /\ \E i \in observed[r] : TimedOut(r, i) )
            => IF \E j \in Backends : RespondsWith(r, j, {200, 304})
               THEN \E j \in Backends :
                        /\ RespondsWith(r, j, {200, 304})
                        /\ response[r] = BackendResponseOf(r, j)
               ELSE /\ IsSynthesized404(response[r])
                    /\ observed[r] = Backends)

C15_Witness ==
    \E r \in Requests :
        /\ pc[r] = "done"
        /\ Len(completed[r]) = 2
        /\ TimedOut(r, completed[r][1])
        /\ completed[r][1] \in observed[r]
        /\ RespondsWith(r, completed[r][2], {200, 304})
        /\ response[r] = BackendResponseOf(r, completed[r][2])

\* The positions, in completion order, of the calls with an Accepted outcome.
AcceptedCompletions(r) ==
    { k \in DOMAIN completed[r] : classify(behaviour[r][completed[r][k]]).some }

\* C16: the Client Response of a request with a winner is the response of
\* the call that completed first among the calls with an Accepted outcome,
\* wherever its backend stands in the list; no response is produced while
\* an Accepted outcome that has completed is passed over; and as long as no
\* call has completed, each call may be the first to complete.
C16_FirstAcceptedWins ==
    \A r \in Requests :
        /\ (pc[r] = "done" /\ AcceptedCompletions(r) # {})
               => LET first == CHOOSE k \in AcceptedCompletions(r) :
                                   \A l \in AcceptedCompletions(r) : k <= l
                  IN  /\ response[r] = BackendResponseOf(r, completed[r][first])
                      /\ \A l \in 1..first : completed[r][l] \in observed[r]
                      /\ \A l \in DOMAIN completed[r] :
                             l > first => completed[r][l] \notin observed[r]
        /\ (pc[r] = "done" /\ IsSynthesized404(response[r]) /\ ReachesDispatcher(r))
               => AcceptedCompletions(r) = {}
        /\ (pc[r] = "race" /\ completed[r] = <<>>)
               => \A i \in Backends : ENABLED BackendComplete(r, i)

C16_Witness ==
    \E r \in Requests :
        /\ pc[r] = "done"
        /\ Len(repositories) = 2
        /\ repositories[1] # repositories[2]
        /\ RespondsWith(r, 1, {200, 304})
        /\ RespondsWith(r, 2, {200, 304})
        /\ completed[r] = <<2, 1>>
        /\ response[r] = BackendResponseOf(r, 2)
        /\ response[r] # BackendResponseOf(r, 1)

\* C17: once a winner is found the calls not yet observed stay with the
\* drain task, which is never cancelled, ends only when each of them has
\* completed and been consumed, and belongs to a request whose Client
\* Response is the winner's.
C17_DrainCompletes ==
    \A r \in Requests :
        /\ drain[r] # "cancelled"
        /\ drain[r] # "none" => (pc[r] = "done" /\ IsPassThrough(r))
        /\ drain[r] = "finished"
               => /\ inflight[r] = {}
                  /\ ready[r] = <<>>
                  /\ observed[r] \cup drained[r] = DOMAIN built[r]

\* C18: when the run of the server has ended, no backend call dispatched
\* before is still outstanding, a call handed to a drain task included.
C18_NoCallAbortedAtExit ==
    server = "exited" => \A r \in Requests : inflight[r] = {}

\* The calls of request r that have completed.
CompletedCalls(r) == { completed[r][k] : k \in DOMAIN completed[r] }

\* C19: the calls of an inbound request are sent by its dispatch loop only,
\* one per entry of the backend list: no call is sent once the race runs,
\* no entry has two calls or two outcomes, and a request in its race has
\* exactly one call per entry, duplicate entries included.
C19_AtMostOncePerEntry ==
    /\ [][\A r \in Requests :
            pc[r] # "idle" => inflight'[r] \subseteq inflight[r]]_vars
    /\ [](\A r \in Requests :
            /\ Len(built[r]) <= Len(repositories)
            /\ inflight[r] \cap CompletedCalls(r) = {}
            /\ inflight[r] \cup CompletedCalls(r) \subseteq DOMAIN built[r]
            /\ \A k, l \in DOMAIN completed[r] :
                   completed[r][k] = completed[r][l] => k = l
            /\ (ReachesDispatcher(r) /\ response[r] # ErrResponse)
                   => /\ DOMAIN built[r] = Backends
                      /\ inflight[r] \cup CompletedCalls(r) = Backends)

C19_Witness ==
    \E r \in Requests :
        /\ pc[r] = "done"
        /\ Len(repositories) = 2
        /\ repositories[1] = repositories[2]
        /\ Len(completed[r]) = 2
        /\ built[r][1].uri = built[r][2].uri
        /\ RespondsWith(r, 1, {404})
        /\ TimedOut(r, 2)
        /\ observed[r] = {1, 2}
        /\ IsSynthesized404(response[r])

\* C20: a request that reached the dispatcher is resolved, with the winner's
\* response (Winner-found) or the synthesized 404 (Exhausted), or else its
\* race can go on: a call is still to complete or a completed call is
\* still to be observed.
C20_RaceResolves ==
    \A r \in Requests :
        ReachesDispatcher(r)
        => \/ pc[r] = "done" /\ IsPassThrough(r)
           \/ pc[r] = "done" /\ IsSynthesized404(response[r])
           \/ /\ pc[r] = "race"
              /\ \/ ENABLED RaceNext(r)
                 \/ \E i \in Backends : ENABLED BackendComplete(r, i)

\* Request r has had no backend request built and no backend call sent.
NoBackendContact(r) ==
    /\ built[r] = <<>>
    /\ inflight[r] = {}
    /\ completed[r] = <<>>
    /\ observed[r] = {}
    /\ drain[r] = "none"

\* C21: a request the validator answers (disallowed method, no
\* path-and-query, "/", "/favicon.ico", non-empty body) is answered in the
\* handler's first run with 405, 200, 404 or 400 and has no backend request
\* built or sent, then or later; a request with a backend request built or
\* a call sent has method GET or HEAD, an empty body and a non-special path.
C21_ValidatorNeverContacts ==
    \A r \in Requests :
        /\ (Received(r) /\ ~ReachesDispatcher(r))
               => /\ NoBackendContact(r)
                  /\ pc[r] = "done"
                  /\ response[r].kind = "response"
                  /\ response[r].status \in {405, 200, 404, 400}
        /\ ~NoBackendContact(r) => ReachesDispatcher(r)

C21_Witness ==
    \E r \in Requests :
        /\ Received(r)
        /\ Len(repositories) = 2
        /\ Req(r).method = "GET"
        /\ Req(r).body_end
        /\ Gav(r).some
        /\ as_str(Gav(r).value) = FaviconTarget
        /\ \A i \in Backends : behaviour[r][i] = BackendResponse(200, i)
        /\ response[r].status = 404
        /\ NoBackendContact(r)

\* Everything the handling of request r reads and writes of its own.
RequestState(r) ==
    <<request[r], behaviour[r], pc[r], built[r], inflight[r], completed[r],
      ready[r], observed[r], drain[r], drained[r], response[r]>>

\* The response that request r's own input and the outcomes and completion
\* order of its own calls give.
OwnResponse(r) ==
    LET h == handle_request(repositories, Req(r))
    IN  IF ~h.racing THEN h.response
        ELSE IF AcceptedCompletions(r) # {}
        THEN BackendResponseOf(r, completed[r][CHOOSE k \in AcceptedCompletions(r) :
                                    \A l \in AcceptedCompletions(r) : k <= l])
        ELSE not_found_response(Req(r).version)

\* C22: no step changes the backend list or the timeout; no step changes
\* the state of two requests; and the Client Response of each request is
\* the one its own input and the outcomes of its own backend calls give,
\* whatever the other request does in between.
C22_RequestsIndependent ==
    /\ [][/\ repositories' = repositories
          /\ proxy_timeout' = proxy_timeout
          /\ \A r1, r2 \in Requests :
                 r1 # r2 => \/ RequestState(r1)' = RequestState(r1)
                            \/ RequestState(r2)' = RequestState(r2)]_vars
    /\ [](\A r \in Requests : pc[r] = "done" => response[r] = OwnResponse(r))

C22_Witness ==
    /\ pc[1] = "done"
    /\ pc[2] = "done"
    /\ request[1] = request[2]
    /\ completed[1] = <<1, 2>>
    /\ completed[2] = <<2, 1>>
    /\ RespondsWith(1, 1, {200})
    /\ response[1] = BackendResponseOf(1, 1)
    /\ \A i \in Backends : RespondsWith(2, i, {404})
    /\ IsSynthesized404(response[2])
    /\ drain[1] = "finished"

====
